---- MODULE Spec2Model ----
(***************************************************************************)
(* Model of codats: the training loop of main.py (main, lines 82-159),     *)
(* the run directory names (get_directory_names, lines 49-79) and the      *)
(* tfrecord file names of datasets/tfrecord.py (tfrecord_filename).        *)
(*                                                                         *)
(* CheckpointManager (checkpoints.py) and file_utils are imported by       *)
(* main.py but their code is not part of the sources at hand; they are     *)
(* modelled from their contracts in the specification.                     *)
(***************************************************************************)
EXTENDS Integers, Sequences, FiniteSets, TLC

VARIABLES FLAGS, pc, i, global_step, validation_accuracy, ckpt, log, resume, runs, call, result,
          procs, fs, crashes

vars == <<FLAGS, pc, i, global_step, validation_accuracy, ckpt, log, resume, runs, call, result,
         procs, fs, crashes>>

(* ----------------------------- bounds ---------------------------------- *)

\* largest value of --steps
MaxSteps == 4

\* largest value of the four cadence flags
MaxEvery == 3

\* largest validation score returned by metrics.test
MaxScore == 2

\* number of times the program is executed on the same model directory
MaxRuns == 2

(* --------------------------- basic values ------------------------------ *)

\* Python's None, for an integer-valued or score-valued variable
None == -1

Scores == 1..MaxScore

RECURSIVE SeqMax(_)
SeqMax(s) == IF s = <<>> THEN None
             ELSE LET m == SeqMax(Tail(s)) IN IF Head(s) > m THEN Head(s) ELSE m

(* ----------------------- CheckpointManager ----------------------------- *)

\* the checkpoint store of a model directory before any save
NoCheckpoints == [saved |-> <<>>, latest |-> 0, best |-> 0]

\* the state captured by tf.train.Checkpoint: global_step (the method's
\* variables are opaque)
Checkpoint(step, score, gs) == [step |-> step, validationScore |-> score, global_step |-> gs]

\* CheckpointManager.save(step, validation_accuracy): the record becomes the
\* latest one; it becomes the best one when a score is given that is
\* strictly better than the best so far
save(ck, step, score, gs) ==
    LET n == Len(ck.saved) + 1
        better == /\ score # None
                  /\ \/ ck.best = 0
                     \/ score > ck.saved[ck.best].validationScore
    IN [saved |-> Append(ck.saved, Checkpoint(step, score, gs)),
        latest |-> n,
        best |-> IF better THEN n ELSE ck.best]

\* CheckpointManager.restore_latest(): the restored value of global_step,
\* which stays as constructed when there is no checkpoint
restore_latest(ck, gs) ==
    IF ck.latest = 0 THEN gs ELSE ck.saved[ck.latest].global_step


(* --------------------- strings (datasets/tfrecord.py) ------------------ *)

\* A Python str is the sequence of its code points.

\* length of the longest generated domain name
NameLen == 2

\* "office_amazon"
office_amazon == <<111, 102, 102, 105, 99, 101, 95, 97, 109, 97, 122, 111, 110>>

\* "office_dslr"
office_dslr == <<111, 102, 102, 105, 99, 101, 95, 100, 115, 108, 114>>

\* "office_webcam"
office_webcam == <<111, 102, 102, 105, 99, 101, 95, 119, 101, 98, 99, 97, 109>>

\* "train"
s_train == <<116, 114, 97, 105, 110>>

\* "valid"
s_valid == <<118, 97, 108, 105, 100>>

\* "test"
s_test == <<116, 101, 115, 116>>

\* "training", not a split
s_training == <<116, 114, 97, 105, 110, 105, 110, 103>>

\* "_and_"
s_and == <<95, 97, 110, 100, 95>>

\* "_"
s_us == <<95>>

\* ".tfrecord"
s_tfrecord == <<46, 116, 102, 114, 101, 99, 111, 114, 100>>

\* domain2=None
NoDomain == <<None>>

\* the letters "A" and "b" of the generated names
Letters == {65, 98}

\* the names of length 1..NameLen over Letters
Names == UNION {[1..n -> Letters] : n \in 1..NameLen}

Domains == Names \cup {office_amazon, office_dslr, office_webcam}

Splits == {s_train, s_valid, s_test, s_training}

\* Python's a < b on str: the first differing code point decides, a proper
\* prefix is smaller
RECURSIVE StrLess(_, _)
StrLess(a, b) ==
    IF b = <<>> THEN FALSE
    ELSE IF a = <<>> THEN TRUE
    ELSE IF Head(a) # Head(b) THEN Head(a) < Head(b)
    ELSE StrLess(Tail(a), Tail(b))

\* the list left as the caller gave it
SortNames_Unsorted(names) == names

\* tfrecord.py:61, names.sort() on the two element list
SortNames(names) ==
    IF StrLess(names[2], names[1]) THEN <<names[2], names[1]>> ELSE names

\* tfrecord.py:55
skip == {office_amazon, office_dslr, office_webcam}

\* "or" in place of "and" between the two membership tests
SingleFile_Either(domain1, domain2) ==
    domain2 = NoDomain \/ (domain1 \in skip \/ domain2 \in skip)

\* tfrecord.py:57, the names that get no A_and_B prefix
SingleFile(domain1, domain2) ==
    domain2 = NoDomain \/ (domain1 \in skip /\ domain2 \in skip)

AssertionError == [status |-> "AssertionError"]

Return(filename) == [status |-> "ok", filename |-> filename]

\* tfrecord.py:35-66
tfrecord_filename(domain1, domain2, dataset_name, train_or_test) ==
    LET names == <<domain1, domain2>> IN
    IF train_or_test \notin {s_train, s_valid, s_test} THEN AssertionError
    ELSE IF dataset_name \notin {names[1], names[2]} THEN AssertionError
    ELSE IF SingleFile(domain1, domain2)
         THEN Return(dataset_name \o s_us \o train_or_test \o s_tfrecord)
         ELSE LET sorted == SortNames(names)
                  prefix == sorted[1] \o s_and \o sorted[2]
              IN Return(prefix \o s_us \o dataset_name \o s_us \o train_or_test \o s_tfrecord)

\* the calls of tfrecord_filename: any domain1, an optional domain2, any
\* dataset name and split
FilenameCalls ==
    [op : {"tfrecord_filename"}, domain1 : Domains, domain2 : Domains \cup {NoDomain},
     dataset_name : Domains, train_or_test : Splits]


(* -------------------- write_tfrecord (tfrecord.py) --------------------- *)

\* largest number of examples given to write_tfrecord
MaxExamples == 2

\* the x, y and domain arguments: sequences of opaque tensors
Tensors == UNION {[1..n -> {0, 1}] : n \in 0..MaxExamples}

\* tfrecord.py:14-20
create_tf_example(x, y, domain) == [x |-> x, y |-> y, domain |-> domain]

\* tfrecord.py:29-32, the file opened and the examples written one by one;
\* indexing past the end of y or domain raises IndexError
RECURSIVE WriteExamples(_, _, _, _, _)
WriteExamples(x, y, domain, k, written) ==
    IF k > Len(x) THEN [status |-> "ok", opened |-> TRUE, records |-> written]
    ELSE IF k > Len(y) \/ k > Len(domain)
    THEN [status |-> "IndexError", opened |-> TRUE, records |-> written]
    ELSE WriteExamples(x, y, domain, k + 1,
                       Append(written, create_tf_example(x[k], y[k], domain[k])))

\* the first assertion alone
SameLengths_FirstOnly(x, y, domain) == Len(x) = Len(y)

\* tfrecord.py:25-26
SameLengths(x, y, domain) == Len(x) = Len(y) /\ Len(x) = Len(domain)

\* tfrecord.py:23-32
write_tfrecord(x, y, domain) ==
    IF ~SameLengths(x, y, domain)
    THEN [status |-> "AssertionError", opened |-> FALSE, records |-> <<>>]
    ELSE WriteExamples(x, y, domain, 1, <<>>)

WriteCalls == [op : {"write_tfrecord"}, x : Tensors, y : Tensors, domain : Tensors]

(* --------------------- get_directory_names (main.py) ------------------- *)

\* largest value of --uid
MaxUid == 1

\* largest value of --debugnum
MaxDebugNum == 1

\* largest numbered directory found in the log directory
MaxAttempt == 2

\* "models", the default of --modeldir
s_models == <<109, 111, 100, 101, 108, 115>>

\* "logs", the default of --logdir
s_logs == <<108, 111, 103, 115>>

\* "-"
s_dash == <<45>>

\* "/"
s_sep == <<47>>

\* "d", a dataset
s_d == <<100>>

\* "m", a method
s_m == <<109>>

\* A Python value is a str or an int; + is defined on two str (and on two
\* int), and raises TypeError on a str and an int.
PyStr(s) == [type |-> "str", val |-> s]

PyInt(n) == [type |-> "int", val |-> n]

TypeError == [type |-> "TypeError"]

\* Python's a + b in a string expression
PyAdd(a, b) ==
    IF a.type = "str" /\ b.type = "str" THEN PyStr(a.val \o b.val) ELSE TypeError

\* str(n) of a non-negative int
RECURSIVE Decimal(_)
Decimal(n) == IF n < 10 THEN <<48 + n>> ELSE Decimal(n \div 10) \o <<48 + (n % 10)>>

\* os.path.join(a, b)
path_join(a, b) ==
    IF b # <<>> /\ Head(b) = 47 THEN b
    ELSE IF a = <<>> \/ a[Len(a)] = 47 THEN a \o b
    ELSE a \o s_sep \o b

IsDigit(c) == c \in 48..57

\* the number written by the digits at the end of a name, None without one
RECURSIVE TrailingNumber(_)
TrailingNumber(s) ==
    IF s = <<>> \/ ~IsDigit(s[Len(s)]) THEN None
    ELSE LET front == TrailingNumber(SubSeq(s, 1, Len(s) - 1))
             d == s[Len(s)] - 48
         IN IF front = None THEN d ELSE 10 * front + d

StartsWith(s, p) == Len(p) <= Len(s) /\ SubSeq(s, 1, Len(p)) = p

\* file_utils.last_modified_number(dir, prefix+"*"): the highest number at
\* the end of an entry of the directory that matches, None if none matches
last_modified_number(listing, prefix) ==
    LET numbers == {TrailingNumber(e) : e \in {x \in listing : StartsWith(x, prefix)}} \ {None}
    IN IF numbers = {} THEN None
       ELSE CHOOSE n \in numbers : \A m \in numbers : m <= n

Dirs(model_dir, log_dir) == [type |-> "dirs", model_dir |-> model_dir, log_dir |-> log_dir]

\* main.py:49-79; F holds the flags, listing the entries of FLAGS.logdir
get_directory_names(F, listing) ==
    LET prefix == PyAdd(PyAdd(PyAdd(PyAdd(F.dataset, PyStr(s_dash)), F.uid), PyStr(s_dash)), F.method)
    IN IF prefix.type # "str" THEN prefix
       ELSE IF F.debugnum >= 0
       THEN LET attempt == F.debugnum
                name == prefix.val \o s_dash \o Decimal(attempt)
            IN Dirs(path_join(F.modeldir, name), path_join(F.logdir, name))
       ELSE IF F.debug
       THEN LET last == last_modified_number(listing, prefix.val)
                attempt == IF last # None THEN last + 1 ELSE 1
                name == prefix.val \o s_dash \o Decimal(attempt)
            IN Dirs(path_join(F.modeldir, name), path_join(F.logdir, name))
       ELSE IF F.subdir
       THEN Dirs(path_join(F.modeldir, prefix.val), path_join(F.logdir, prefix.val))
       ELSE Dirs(F.modeldir, F.logdir)

\* main.py:24-41, the flags get_directory_names reads: --dataset, --method,
\* --modeldir and --logdir are DEFINE_string and DEFINE_enum, --uid and
\* --debugnum are DEFINE_integer, --debug and --subdir are DEFINE_boolean
DirFlagValues ==
    [dataset : {PyStr(s_d)},
     uid : {PyInt(n) : n \in 0..MaxUid},
     method : {PyStr(s_m)},
     modeldir : {s_models},
     logdir : {s_logs},
     debugnum : -1..MaxDebugNum,
     debug : BOOLEAN,
     subdir : BOOLEAN]

\* "{dataset}-{uid}-{method}"
RunName(F) == F.dataset.val \o s_dash \o Decimal(F.uid.val) \o s_dash \o F.method.val

\* what the log directory may hold: the run's directory and numbered ones
LogEntries(F) == {RunName(F)} \cup {RunName(F) \o s_dash \o Decimal(n) : n \in 1..MaxAttempt}

DirCalls ==
    UNION {[op : {"get_directory_names"}, flags : {F}, listing : SUBSET LogEntries(F)] :
           F \in DirFlagValues}

(* ------------------------------ main ----------------------------------- *)

Event(hook, step, score) == [hook |-> hook, i |-> i, step |-> step, score |-> score]

\* the values of --log_train_steps, --log_val_steps, --model_steps and
\* --log_plots_steps: cadences with steps on them and steps off them
Cadences == 2..MaxEvery

\* the command line flags the loop reads
FlagValues ==
    [steps : 0..MaxSteps,
     log_train_steps : Cadences,
     log_val_steps : Cadences,
     model_steps : Cadences,
     log_plots_steps : Cadences,
     time_training : BOOLEAN]

NoCall == [op |-> "none"]

Init ==
    /\ FLAGS \in FlagValues
    /\ pc = "start"
    /\ i = 0
    /\ global_step = 0
    /\ validation_accuracy = None
    /\ ckpt = NoCheckpoints
    /\ log = <<>>
    /\ resume = 0
    /\ runs = 1
    /\ call = NoCall
    /\ result = NoCall
    /\ procs = <<>>
    /\ fs = {}
    /\ crashes = 0

\* restore_latest() left out: global_step stays 0
Startup_NoRestore ==
    /\ pc = "start"
    /\ global_step' = 0
    /\ resume' = 0
    /\ i' = 0
    /\ validation_accuracy' = None
    /\ log' = <<>>
    /\ pc' = "for"
    /\ UNCHANGED <<FLAGS, ckpt, runs, call, result, procs, fs, crashes>>

\* the best checkpoint restored in place of the latest
Startup_RestoreBest ==
    /\ pc = "start"
    /\ LET gs == IF ckpt.best = 0 THEN 0 ELSE ckpt.saved[ckpt.best].global_step IN
         /\ global_step' = gs
         /\ resume' = gs
         /\ i' = gs
    /\ validation_accuracy' = None
    /\ log' = <<>>
    /\ pc' = "for"
    /\ UNCHANGED <<FLAGS, ckpt, runs, call, result, procs, fs, crashes>>

\* main.py:103-116, global_step = tf.Variable(0), then restore_latest();
\* range(int(global_step), ...) of line 124 starts at the restored value
Startup ==
    /\ pc = "start"
    /\ LET gs == restore_latest(ckpt, 0) IN
         /\ global_step' = gs
         /\ resume' = gs
         /\ i' = gs
    /\ validation_accuracy' = None
    /\ log' = <<>>
    /\ pc' = "for"
    /\ UNCHANGED <<FLAGS, ckpt, runs, call, result, procs, fs, crashes>>

\* range(int(global_step), FLAGS.steps+2)
RangeStop_OneMore == FLAGS.steps + 2

\* range(int(global_step), FLAGS.steps)
RangeStop_OneLess == FLAGS.steps

\* main.py:124, the end of range(int(global_step), FLAGS.steps+1)
RangeStop == FLAGS.steps + 1

\* main.py:124, the loop head: another iteration, or leave the loop
ForLoop ==
    /\ pc = "for"
    /\ pc' = IF i < RangeStop THEN "train" ELSE "finish"
    /\ UNCHANGED <<FLAGS, i, global_step, validation_accuracy, ckpt, log, resume, runs, call, result, procs, fs, crashes>>

\* train_step without global_step.assign_add(1)
TrainStep_NoAssignAdd ==
    /\ pc = "train"
    /\ log' = Append(log, Event("train_step", global_step, None))
    /\ pc' = "timing"
    /\ UNCHANGED <<FLAGS, i, global_step, validation_accuracy, ckpt, resume, runs, call, result, procs, fs, crashes>>

\* main.py:125-129, train_step and global_step.assign_add(1)
TrainStep ==
    /\ pc = "train"
    /\ log' = Append(log, Event("train_step", global_step, None))
    /\ global_step' = global_step + 1
    /\ pc' = "timing"
    /\ UNCHANGED <<FLAGS, i, validation_accuracy, ckpt, resume, runs, call, result, procs, fs, crashes>>

\* the time printed without the continue
TimeTraining_NoContinue ==
    /\ pc = "timing"
    /\ log' = IF FLAGS.time_training
              THEN Append(log, Event("timing", global_step, None))
              ELSE log
    /\ pc' = "train_metrics"
    /\ UNCHANGED <<FLAGS, i, global_step, validation_accuracy, ckpt, resume, runs, call, result, procs, fs, crashes>>

\* the timing branch placed so that only metrics and checkpoints are skipped
TimeTraining_ThenPlots ==
    /\ pc = "timing"
    /\ IF FLAGS.time_training
       THEN /\ log' = Append(log, Event("timing", global_step, None))
            /\ pc' = "plots"
       ELSE /\ pc' = "train_metrics"
            /\ UNCHANGED log
    /\ UNCHANGED <<FLAGS, i, global_step, validation_accuracy, ckpt, resume, runs, call, result, procs, fs, crashes>>

\* main.py:131-133, --time_training prints the time and continues
TimeTraining ==
    /\ pc = "timing"
    /\ IF FLAGS.time_training
       THEN /\ log' = Append(log, Event("timing", global_step, None))
            /\ i' = i + 1
            /\ pc' = "for"
       ELSE /\ pc' = "train_metrics"
            /\ UNCHANGED <<log, i>>
    /\ UNCHANGED <<FLAGS, global_step, validation_accuracy, ckpt, resume, runs, call, result, procs, fs, crashes>>

\* metrics.train on the cadence of the validation
TrainMetrics_ValCadence ==
    /\ pc = "train_metrics"
    /\ log' = IF i % FLAGS.log_val_steps = 0
              THEN Append(log, Event("train_metrics", global_step, None))
              ELSE log
    /\ pc' = "validation"
    /\ UNCHANGED <<FLAGS, i, global_step, validation_accuracy, ckpt, resume, runs, call, result, procs, fs, crashes>>

\* main.py:139-140, metrics.train
TrainMetrics ==
    /\ pc = "train_metrics"
    /\ log' = IF i % FLAGS.log_train_steps = 0
              THEN Append(log, Event("train_metrics", global_step, None))
              ELSE log
    /\ pc' = "validation"
    /\ UNCHANGED <<FLAGS, i, global_step, validation_accuracy, ckpt, resume, runs, call, result, procs, fs, crashes>>

\* the cadence tested on the counter, which line 128 already advanced
ValidationDue_Counter == global_step % FLAGS.log_val_steps = 0 \/ i = FLAGS.steps

\* main.py:144, when the validation data is evaluated
ValidationDue == i % FLAGS.log_val_steps = 0 \/ i = FLAGS.steps

\* main.py:143-145, metrics.test returns an accuracy or None
Validation ==
    /\ pc = "validation"
    /\ IF ValidationDue
       THEN \E score \in Scores \cup {None} :
              /\ validation_accuracy' = score
              /\ log' = Append(log, Event("test", global_step, score))
       ELSE /\ validation_accuracy' = None
            /\ UNCHANGED log
    /\ pc' = "save"
    /\ UNCHANGED <<FLAGS, i, global_step, ckpt, resume, runs, call, result, procs, fs, crashes>>

\* the model step cadence alone
SaveDue_CadenceOnly == i % FLAGS.model_steps = 0

\* main.py:151, when a checkpoint is saved
SaveDue == i % FLAGS.model_steps = 0 \/ validation_accuracy # None

\* the exception of save caught and the loop going on
SaveCall_Swallowed(due, step, score) ==
    /\ pc = "save"
    /\ IF due
       THEN \/ /\ ckpt' = save(ckpt, step, score, global_step)
               /\ log' = Append(log, Event("save", step, score))
            \/ /\ log' = Append(log, Event("save_raised", step, score))
               /\ UNCHANGED ckpt
       ELSE UNCHANGED <<ckpt, log>>
    /\ pc' = "plots"
    /\ UNCHANGED <<FLAGS, i, global_step, validation_accuracy, resume, runs, call, result, procs, fs, crashes>>

\* main.py:152, checkpoint_manager.save(int(global_step-1),
\* validation_accuracy): it returns, or it raises and the exception leaves
\* main, which has no handler
SaveCall(due, step, score) ==
    /\ pc = "save"
    /\ IF due
       THEN \/ /\ ckpt' = save(ckpt, step, score, global_step)
               /\ log' = Append(log, Event("save", step, score))
               /\ pc' = "plots"
            \/ /\ log' = Append(log, Event("save_raised", step, score))
               /\ pc' = "failed"
               /\ UNCHANGED ckpt
       ELSE /\ pc' = "plots"
            /\ UNCHANGED <<ckpt, log>>
    /\ UNCHANGED <<FLAGS, i, global_step, validation_accuracy, resume, runs, call, result, procs, fs, crashes>>

\* save called without the validation accuracy
Save_NoScore == SaveCall(SaveDue, global_step - 1, None)

\* save called with the counter as it is after line 128
Save_NoMinusOne == SaveCall(SaveDue, global_step, validation_accuracy)

\* main.py:147-152
Save == SaveCall(SaveDue, global_step - 1, validation_accuracy)

\* main.py:155-156, metrics.plots, and the end of the loop body
Plots ==
    /\ pc = "plots"
    /\ log' = IF i % FLAGS.log_plots_steps = 0
              THEN Append(log, Event("plots", global_step, None))
              ELSE log
    /\ i' = i + 1
    /\ pc' = "for"
    /\ UNCHANGED <<FLAGS, global_step, validation_accuracy, ckpt, resume, runs, call, result, procs, fs, crashes>>

\* main.py:159, file_utils.write_finished(log_dir)
WriteFinished ==
    /\ pc = "finish"
    /\ log' = Append(log, Event("finished", global_step, None))
    /\ pc' = "done"
    /\ UNCHANGED <<FLAGS, i, global_step, validation_accuracy, ckpt, resume, runs, call, result, procs, fs, crashes>>

\* main.py:162-163, the program is executed again with the same flags on
\* the same directories, after it returned, died of the exception or was
\* killed
Rerun ==
    /\ pc \in {"done", "failed", "crashed"}
    /\ runs < MaxRuns
    /\ runs' = runs + 1
    /\ pc' = "start"
    /\ UNCHANGED <<FLAGS, i, global_step, validation_accuracy, ckpt, log, resume, call, result, procs, fs, crashes>>

Next ==
    \/ Startup
    \/ ForLoop
    \/ TrainStep
    \/ TimeTraining
    \/ TrainMetrics
    \/ Validation
    \/ Save
    \/ Plots
    \/ WriteFinished
    \/ Rerun

Spec == Init /\ [][Next]_vars

(* ----------------------- main, run to its end -------------------------- *)

\* main.py:33-36, --model_steps, --log_val_steps and --log_plots_steps at one
\* value, as their defaults are
InitFair ==
    /\ Init
    /\ FLAGS.model_steps = FLAGS.log_val_steps
    /\ FLAGS.log_plots_steps = FLAGS.log_val_steps

\* main.py:124-159, a statement of the loop or the one after it
LoopStep ==
    \/ ForLoop
    \/ TrainStep
    \/ TimeTraining
    \/ TrainMetrics
    \/ Validation
    \/ Save
    \/ Plots
    \/ WriteFinished

\* main.py:124-159, an execution that is not killed goes on to its next
\* statement
SpecFair == InitFair /\ [][Next]_vars /\ WF_vars(LoopStep)

(* ------------------------- main, interrupted --------------------------- *)

\* the places of main between the restore and the return
InLoop == {"for", "train", "timing", "train_metrics", "validation", "save", "plots", "finish"}

\* main.py:124-159, the process killed between two statements of the loop:
\* what it saved stays, the rest is lost
Crash ==
    /\ pc \in InLoop
    /\ pc' = "crashed"
    /\ crashes' = crashes + 1
    /\ UNCHANGED <<FLAGS, i, global_step, validation_accuracy, ckpt, log, resume, runs, call, result, procs, fs>>

NextCrash ==
    \/ Next
    \/ Crash

SpecCrash == Init /\ [][NextCrash]_vars

(* ------------------- calls of the naming functions --------------------- *)

\* main is not running
Idle ==
    /\ FLAGS = [steps |-> 0, log_train_steps |-> 2, log_val_steps |-> 2, model_steps |-> 2,
                log_plots_steps |-> 2, time_training |-> FALSE]
    /\ pc = "idle"
    /\ i = 0
    /\ global_step = 0
    /\ validation_accuracy = None
    /\ ckpt = NoCheckpoints
    /\ log = <<>>
    /\ resume = 0
    /\ runs = 1

InitNaming ==
    /\ procs = <<>>
    /\ fs = {}
    /\ crashes = 0
    /\ Idle
    /\ call \in FilenameCalls \cup DirCalls \cup WriteCalls
    /\ result = NoCall

\* a call of tfrecord_filename returns or raises
CallTfrecordFilename ==
    /\ call.op = "tfrecord_filename"
    /\ result = NoCall
    /\ result' = tfrecord_filename(call.domain1, call.domain2, call.dataset_name, call.train_or_test)
    /\ UNCHANGED <<FLAGS, pc, i, global_step, validation_accuracy, ckpt, log, resume, runs, call, procs, fs, crashes>>

\* a call of get_directory_names returns or raises
CallGetDirectoryNames ==
    /\ call.op = "get_directory_names"
    /\ result = NoCall
    /\ result' = get_directory_names(call.flags, call.listing)
    /\ UNCHANGED <<FLAGS, pc, i, global_step, validation_accuracy, ckpt, log, resume, runs, call, procs, fs, crashes>>

\* a call of write_tfrecord returns or raises
CallWriteTfrecord ==
    /\ call.op = "write_tfrecord"
    /\ result = NoCall
    /\ result' = write_tfrecord(call.x, call.y, call.domain)
    /\ UNCHANGED <<FLAGS, pc, i, global_step, validation_accuracy, ckpt, log, resume, runs, call, procs, fs, crashes>>

NextNaming ==
    \/ CallTfrecordFilename
    \/ CallGetDirectoryNames
    \/ CallWriteTfrecord

SpecNaming == InitNaming /\ [][NextNaming]_vars

(* ------------------------ the start of main ---------------------------- *)

\* number of processes started with the same command line
NumProcs == 2

Procs == 1..NumProcs

\* the value of a flag that is not on the command line and has no default
Absent == [type |-> "NoneType"]

\* main.py:26-30, the defaults of --method, --dataset (None) and --uid (0)
FlagDefault(name) == IF name = "uid" THEN PyInt(0) ELSE Absent

\* the value absl gives FLAGS.name: the one of the command line, else the
\* default
FlagValue(argv, name) == IF argv[name] = Absent THEN FlagDefault(name) ELSE argv[name]

\* FLAGS after parsing the command line
ParsedFlags(argv) ==
    [argv EXCEPT !.dataset = FlagValue(argv, "dataset"),
                 !.uid = FlagValue(argv, "uid"),
                 !.method = FlagValue(argv, "method")]

\* main.py:43-46, mark_flag_as_required: the value of the flag is not None
\* (--sources is not modelled)
RequiredFlagsGiven(F) == F.method # Absent /\ F.dataset # Absent /\ F.uid # Absent

\* the command lines: each of --dataset, --uid and --method given or not
CommandLines ==
    [dataset : {Absent, PyStr(s_d)},
     uid : {Absent} \cup {PyInt(n) : n \in 0..MaxUid},
     method : {Absent, PyStr(s_m)},
     modeldir : {s_models},
     logdir : {s_logs},
     debugnum : -1..MaxDebugNum,
     debug : BOOLEAN,
     subdir : BOOLEAN]

\* the directories of earlier runs of dataset d, uid 0, method m
EarlierRuns ==
    LET F == [dataset |-> PyStr(s_d), uid |-> PyInt(0), method |-> PyStr(s_m)]
    IN {path_join(s_logs, e) : e \in LogEntries(F)}

\* the entries of a directory
ListDir(dir) ==
    {SubSeq(x, Len(dir) + 2, Len(x)) : x \in {y \in fs : StartsWith(y, dir \o s_sep)}}

\* a process before app.run(main)
NewProcess == [pc |-> "flags", listing |-> {}, dirs |-> NoCall]

\* main.py:162-163 with 43-46: app.run parses the flags and checks the
\* required ones before it calls main
ParseFlags(me) ==
    IF RequiredFlagsGiven(ParsedFlags(call.argv))
    THEN [me EXCEPT !.pc = "get_directory_names"]
    ELSE [me EXCEPT !.pc = "IllegalFlagValueError"]

\* main.py:87, get_directory_names lists FLAGS.logdir (line 63) and
\* returns, or raises and the exception leaves main
ResolveNames(me) ==
    LET listing == ListDir(call.argv.logdir)
        names == get_directory_names(ParsedFlags(call.argv), listing)
    IN IF names.type = "dirs"
       THEN [me EXCEPT !.pc = "makedirs", !.listing = listing, !.dirs = names]
       ELSE [me EXCEPT !.pc = names.type, !.listing = listing]

\* main.py:89-92, os.makedirs of the directories that do not exist
MakeDirs(me) == [me EXCEPT !.pc = "running"]

\* one step of the start of process p: lines 162-163, 87 or 89-92
StartupStep(p) ==
    LET me == procs[p] IN
    /\ me.pc \in {"flags", "get_directory_names", "makedirs"}
    /\ procs' = [procs EXCEPT ![p] = IF me.pc = "flags" THEN ParseFlags(me)
                                     ELSE IF me.pc = "get_directory_names" THEN ResolveNames(me)
                                     ELSE MakeDirs(me)]
    /\ fs' = IF me.pc = "makedirs" THEN fs \cup {me.dirs.model_dir, me.dirs.log_dir} ELSE fs
    /\ UNCHANGED <<FLAGS, pc, i, global_step, validation_accuracy, ckpt, log, resume, runs, call, result,
                   crashes>>

InitStartup ==
    /\ Idle
    /\ call \in [op : {"main"}, argv : CommandLines]
    /\ result = NoCall
    /\ procs = [p \in Procs |-> NewProcess]
    /\ fs \in SUBSET EarlierRuns
    /\ crashes = 0

NextStartup == \E p \in Procs : StartupStep(p)

SpecStartup == InitStartup /\ [][NextStartup]_vars

(* ------------------------- properties of main -------------------------- *)

\* the invocations of a hook in this execution, in order
Invocations(hook) == SelectSeq(log, LAMBDA e : e.hook = hook)

\* the loop indices at which a hook was invoked in this execution, in order
StepsOf(hook) == [k \in 1..Len(Invocations(hook)) |-> Invocations(hook)[k].i]

IsPrefixOf(s, t) == Len(s) <= Len(t) /\ SubSeq(t, 1, Len(s)) = s

\* an execution is under way or over: log, i and resume are its own
Running == pc # "start"

\* a run from step 0 that evaluates, with --steps twice --log_val_steps
ColdStartTwoValidations ==
    /\ Running
    /\ resume = 0
    /\ ~FLAGS.time_training
    /\ FLAGS.steps = 2 * FLAGS.log_val_steps

\* C1 as stated: in a cold start with steps = 2 * log_val_steps, not timing,
\* metrics.test is invoked at the steps log_val_steps and 2 * log_val_steps,
\* once at each, and at no other step
C1_ValidationAtTwoSteps ==
    (ColdStartTwoValidations /\ pc = "done")
        => StepsOf("test") = <<FLAGS.log_val_steps, 2 * FLAGS.log_val_steps>>

\* C1 amended: in such a run metrics.test is invoked at the steps 0,
\* log_val_steps and 2 * log_val_steps, once at each and in this order, and
\* at no other step
C1_ValidationAtThreeSteps ==
    ColdStartTwoValidations
        => /\ IsPrefixOf(StepsOf("test"), <<0, FLAGS.log_val_steps, 2 * FLAGS.log_val_steps>>)
           /\ pc = "done" => Len(StepsOf("test")) = 3

C1_Witness ==
    /\ ColdStartTwoValidations
    /\ pc = "done"
    /\ FLAGS.log_val_steps = 2
    /\ Len(StepsOf("test")) = 3

\* C2: an execution that resumes at a step greater than --steps runs no
\* iteration: it invokes no hook but write_finished, and that one once
C2_NoIterationWhenComplete ==
    (Running /\ resume > FLAGS.steps)
        => /\ \A k \in 1..Len(log) : log[k].hook = "finished"
           /\ Len(log) <= 1
           /\ pc = "done" => Len(log) = 1
           /\ pc \in {"for", "finish", "done"}
           /\ global_step = resume

C2_Witness ==
    /\ pc = "done"
    /\ runs = 2
    /\ resume = FLAGS.steps + 1
    /\ Len(log) = 1

\* the iterations of this execution whose save step is over
PastSave(j) ==
    /\ resume <= j
    /\ \/ j < i
       \/ j = i /\ pc \in {"plots", "failed"}

SaveInvoked(j) == \E k \in 1..Len(log) : log[k].i = j /\ log[k].hook \in {"save", "save_raised"}

ScoreProduced(j) == \E k \in 1..Len(log) : log[k].i = j /\ log[k].hook = "test" /\ log[k].score # None

\* C3: when not timing, an iteration calls checkpoint_manager.save iff
\* i % model_steps = 0 or metrics.test returned a score in it; a score
\* returned is passed to save as the very next hook of that iteration, and
\* a save that returns has recorded it in the latest checkpoint
C3_SaveIffCadenceOrScore ==
    (Running /\ ~FLAGS.time_training)
        => /\ \A j \in 0..FLAGS.steps :
                PastSave(j) => (SaveInvoked(j) <=> (j % FLAGS.model_steps = 0 \/ ScoreProduced(j)))
           /\ \A k \in 1..Len(log) :
                (log[k].hook = "test" /\ log[k].score # None)
                    => IF k = Len(log) THEN pc = "save"
                       ELSE /\ log[k+1].hook \in {"save", "save_raised"}
                            /\ log[k+1].i = log[k].i
                            /\ log[k+1].score = log[k].score
           /\ (Len(log) > 0 /\ log[Len(log)].hook = "save")
                => /\ ckpt.latest = Len(ckpt.saved)
                   /\ ckpt.saved[ckpt.latest].validationScore = log[Len(log)].score

C3_Witness ==
    /\ pc = "plots"
    /\ i % FLAGS.model_steps # 0
    /\ validation_accuracy # None
    /\ log[Len(log)].hook = "save"
    /\ log[Len(log)].score = validation_accuracy

\* the scores given to the saves so far, in order
SavedScores == [k \in 1..Len(ckpt.saved) |-> ckpt.saved[k].validationScore]

\* the saves that were given the highest score
SavesWithMax == {k \in 1..Len(ckpt.saved) : /\ SavedScores[k] # None
                                            /\ SavedScores[k] = SeqMax(SavedScores)}

\* the score of the best checkpoint is the highest given so far, if any
BestHasMaxScore ==
    /\ ckpt.best = 0 <=> SeqMax(SavedScores) = None
    /\ ckpt.best # 0 => ckpt.best \in SavesWithMax

FinishedWritten == Len(Invocations("finished"))

\* C9: an execution whose loop ends writes the finished marker exactly
\* once, as its last hook, with no iteration left to run, whatever the step
\* it resumed at and when timing as well; an execution does not write it
\* before, nor when it died
C9_FinishedOnceAfterLoop ==
    Running
        => /\ FinishedWritten = (IF pc = "done" THEN 1 ELSE 0)
           /\ pc = "done"
                => /\ log[Len(log)].hook = "finished"
                   /\ i > FLAGS.steps
                   /\ i >= resume
                   /\ global_step = i
                   /\ Len(Invocations("train_step")) = i - resume

C9_Witness ==
    /\ pc = "done"
    /\ FLAGS.time_training
    /\ FLAGS.steps > 0
    /\ resume = 0
    /\ FinishedWritten = 1

\* C10: when checkpoint_manager.save raises, the execution is over: the
\* raising call is its last hook, no training step, metrics, plots or save
\* follows it, and the finished marker is not written
C10_SaveFailureStopsRun ==
    \A k \in 1..Len(log) :
        log[k].hook = "save_raised"
            => /\ k = Len(log)
               /\ pc \in {"failed", "start"}
               /\ FinishedWritten = 0

C10_Witness ==
    /\ pc = "failed"
    /\ i < FLAGS.steps
    /\ log[Len(log)].hook = "save_raised"

\* the hooks of this execution at loop index j, in order
HooksAt(j) ==
    LET events == SelectSeq(log, LAMBDA e : e.i = j)
    IN [k \in 1..Len(events) |-> events[k].hook]

\* the iterations of this execution that are over
Completed(j) == resume <= j /\ j < i

\* C14: when timing, every iteration invokes train_step, advances
\* global_step by one and prints the time, and invokes neither
\* metrics.train nor metrics.test nor checkpoint_manager.save, at any step
\* and for any cadence, the last step included
C14_TimingSkipsMetricsAndSave ==
    (Running /\ FLAGS.time_training)
        => /\ \A k \in 1..Len(log) : log[k].hook \notin {"train_metrics", "test", "save", "save_raised"}
           /\ \A j \in 0..FLAGS.steps : Completed(j) => HooksAt(j) = <<"train_step", "timing">>
           /\ \A k \in 1..Len(log) : log[k].hook = "timing" => log[k].step = log[k].i + 1
           /\ ckpt = NoCheckpoints
           /\ pc = "done" => i = FLAGS.steps + 1

C14_Witness ==
    /\ FLAGS.time_training
    /\ pc = "done"
    /\ FLAGS.steps = 4
    /\ FLAGS.log_val_steps = 2
    /\ FLAGS.model_steps = 2
    /\ HooksAt(4) = <<"train_step", "timing">>

\* the calls of checkpoint_manager.save of this execution
SaveCalls == SelectSeq(log, LAMBDA e : e.hook \in {"save", "save_raised"})

\* C15 as stated: the step passed to checkpoint_manager.save in the
\* iteration of loop index i is i - 1
C15_SaveStepIsIndexMinusOne ==
    Running => \A k \in 1..Len(SaveCalls) : SaveCalls[k].step = SaveCalls[k].i - 1

\* C15 amended: the step passed to checkpoint_manager.save in the iteration
\* of loop index i is i, the advanced counter minus one
C15_SaveStepIsIndex ==
    Running
        => /\ \A k \in 1..Len(SaveCalls) : SaveCalls[k].step = SaveCalls[k].i
           /\ (Len(log) > 0 /\ log[Len(log)].hook = "save")
                => /\ ckpt.saved[ckpt.latest].step = log[Len(log)].i
                   /\ ckpt.saved[ckpt.latest].global_step = log[Len(log)].i + 1

C15_Witness ==
    /\ pc = "plots"
    /\ i = 3
    /\ Len(SaveCalls) > 0
    /\ SaveCalls[Len(SaveCalls)].i = 3
    /\ SaveCalls[Len(SaveCalls)].step = 3

\* the place of a hook in the loop body
HookRank(hook) ==
    CASE hook = "train_step" -> 1
      [] hook = "timing" -> 2
      [] hook = "train_metrics" -> 2
      [] hook = "test" -> 3
      [] hook \in {"save", "save_raised"} -> 4
      [] hook = "plots" -> 5
      [] hook = "finished" -> 6

\* C16: when not timing, iteration i invokes metrics.train iff
\* i % log_train_steps = 0, metrics.test iff i % log_val_steps = 0 or
\* i = steps, and metrics.plots iff i % log_plots_steps = 0, each at most
\* once, after train_step and the increment of the counter, in the order
\* train metrics, validation, save, plots; an iteration starts only when the
\* hooks of the one before have returned
C16_HooksOnCadenceInOrder ==
    (Running /\ ~FLAGS.time_training)
        => /\ \A j \in 0..FLAGS.steps :
                Completed(j)
                    => LET hooks == HooksAt(j)
                           fired(h) == \E k \in 1..Len(hooks) : hooks[k] = h
                       IN /\ hooks[1] = "train_step"
                          /\ fired("train_metrics") <=> j % FLAGS.log_train_steps = 0
                          /\ fired("test") <=> (j % FLAGS.log_val_steps = 0 \/ j = FLAGS.steps)
                          /\ fired("plots") <=> j % FLAGS.log_plots_steps = 0
           /\ \A k \in 1..Len(log) :
                /\ log[k].hook \in {"train_metrics", "test", "plots"} => log[k].step = log[k].i + 1
                /\ log[k].hook = "train_step" => log[k].step = log[k].i
                /\ k < Len(log)
                     => \/ /\ log[k+1].i = log[k].i
                           /\ HookRank(log[k+1].hook) > HookRank(log[k].hook)
                        \/ /\ log[k+1].i = log[k].i + 1
                           /\ log[k+1].hook \in {"train_step", "finished"}
                           /\ log[k+1].hook = "finished" => log[k].i = FLAGS.steps
                           /\ Completed(log[k].i)

C16_Witness ==
    /\ ~FLAGS.time_training
    /\ pc = "done"
    /\ FLAGS.steps = 4
    /\ FLAGS.log_train_steps = 3
    /\ FLAGS.log_val_steps = 3
    /\ FLAGS.log_plots_steps = 2
    /\ HooksAt(3) = <<"train_step", "train_metrics", "test", "save">>
    /\ HooksAt(4) = <<"train_step", "test", "save", "plots">>

\* C20: when timing, an execution invokes no hook but train_step, the
\* print of the time and write_finished: metrics.plots is not invoked
\* either, at any step, multiples of log_plots_steps included
C20_TimingSkipsPlots ==
    (Running /\ FLAGS.time_training)
        => /\ \A k \in 1..Len(log) : log[k].hook \in {"train_step", "timing", "finished"}
           /\ pc \in {"for", "train", "timing", "finish", "done"}

C20_Witness ==
    /\ FLAGS.time_training
    /\ pc = "for"
    /\ i = 3
    /\ FLAGS.log_plots_steps = 2
    /\ HooksAt(2) = <<"train_step", "timing">>

(* ------------------ properties of the naming functions ----------------- *)

FilenameReturned == call.op = "tfrecord_filename" /\ result # NoCall

ValidSplit(split) == split \in {s_train, s_valid, s_test}

\* C6: for two domains not both among the office ones, a dataset name that
\* is one of them and a valid split, tfrecord_filename returns the same
\* name when the two domains are exchanged
C6_FilenameCommutes ==
    (/\ FilenameReturned
     /\ call.domain2 # NoDomain
     /\ ~(call.domain1 \in skip /\ call.domain2 \in skip)
     /\ call.dataset_name \in {call.domain1, call.domain2}
     /\ ValidSplit(call.train_or_test))
        => /\ result.status = "ok"
           /\ result = tfrecord_filename(call.domain2, call.domain1,
                                         call.dataset_name, call.train_or_test)

C6_Witness ==
    /\ FilenameReturned
    /\ call.domain2 # NoDomain
    /\ call.domain1 \notin skip
    /\ StrLess(call.domain2, call.domain1)
    /\ result.status = "ok"

\* a <= b in lexicographic order: a is a prefix of b, or the first code
\* point where they differ is smaller in a
LexLeq(a, b) ==
    \E k \in 0..Len(a) :
        /\ k <= Len(b)
        /\ SubSeq(a, 1, k) = SubSeq(b, 1, k)
        /\ \/ k = Len(a)
           \/ k < Len(b) /\ a[k+1] < b[k+1]

PairingInsensitive == {office_amazon, office_dslr, office_webcam}

\* "{name}_{split}.tfrecord"
PlainName(name, split) == name \o <<95>> \o split \o s_tfrecord

\* C7: tfrecord_filename raises when the split is not train, valid or test
\* or when the dataset name is neither domain; otherwise it returns
\* "{domain1}_{split}.tfrecord" without a domain2,
\* "{dataset_name}_{split}.tfrecord" for two office domains, and
\* "{lo}_and_{hi}_{dataset_name}_{split}.tfrecord" for any other pair, lo
\* and hi being the two domains in lexicographic order
C7_FilenameShape ==
    FilenameReturned =>
        LET d1 == call.domain1
            d2 == call.domain2
            name == call.dataset_name
            split == call.train_or_test
        IN IF ~ValidSplit(split) \/ (name # d1 /\ name # d2)
           THEN result.status = "AssertionError"
           ELSE /\ result.status = "ok"
                /\ IF d2 = NoDomain
                   THEN result.filename = PlainName(d1, split)
                   ELSE IF d1 \in PairingInsensitive /\ d2 \in PairingInsensitive
                   THEN result.filename = PlainName(name, split)
                   ELSE \E lo, hi \in {d1, d2} :
                          /\ {lo, hi} = {d1, d2}
                          /\ LexLeq(lo, hi)
                          /\ result.filename = lo \o s_and \o hi \o <<95>> \o PlainName(name, split)

C7_Witness ==
    /\ FilenameReturned
    /\ result.status = "ok"
    /\ call.domain1 = office_dslr
    /\ call.domain2 \in Names
    /\ call.dataset_name = office_dslr
    /\ Len(result.filename) > Len(PlainName(office_dslr, call.train_or_test))

DirectoryNamesReturned == call.op = "get_directory_names" /\ result # NoCall

\* the numbers at the end of the entries of the log directory that start
\* with the run name
ExistingSuffixes(F, listing) ==
    {TrailingNumber(e) : e \in {x \in listing : StartsWith(x, RunName(F))}} \ {None}

\* the run name with the number the debug flags ask for
NumberedRunName(F, listing) ==
    IF F.debugnum >= 0 THEN RunName(F) \o s_dash \o Decimal(F.debugnum)
    ELSE IF F.debug
    THEN IF ExistingSuffixes(F, listing) = {} THEN RunName(F) \o s_dash \o Decimal(1)
         ELSE LET highest == CHOOSE n \in ExistingSuffixes(F, listing) :
                                \A m \in ExistingSuffixes(F, listing) : m <= n
              IN RunName(F) \o s_dash \o Decimal(highest + 1)
    ELSE RunName(F)

\* C8: get_directory_names returns {modeldir}/{name} and {logdir}/{name},
\* where name is "{dataset}-{uid}-{method}" followed by -{debugnum} when
\* debugnum >= 0, else by -{highest existing number + 1} (or -1) when
\* --debug, else by nothing when --subdir; without any of them it returns
\* the two roots
C8_DirectoryNames ==
    DirectoryNamesReturned =>
        LET F == call.flags
            name == NumberedRunName(F, call.listing)
        IN IF F.debugnum >= 0 \/ F.debug \/ F.subdir
           THEN result = Dirs(F.modeldir \o s_sep \o name, F.logdir \o s_sep \o name)
           ELSE result = Dirs(F.modeldir, F.logdir)

\* the call of write_tfrecord is over
WriteReturned == call.op = "write_tfrecord" /\ result # NoCall

\* C13: write_tfrecord raises whenever x, y and domain are not of one
\* length, and then it has not opened the file and has written no record;
\* with one length it writes one record for each example
C13_WriteChecksLengths ==
    WriteReturned =>
        IF Len(call.x) = Len(call.y) /\ Len(call.y) = Len(call.domain)
        THEN /\ result.status = "ok"
             /\ result.opened
             /\ Len(result.records) = Len(call.x)
        ELSE /\ result.status # "ok"
             /\ ~result.opened
             /\ result.records = <<>>

C13_Witness ==
    /\ WriteReturned
    /\ Len(call.x) = Len(call.y)
    /\ Len(call.x) > Len(call.domain)
    /\ result.status = "AssertionError"

(* ------------------ properties of the start of main -------------------- *)

\* the processes were started in auto-increment debug mode
AutoIncrementMode ==
    /\ call.op = "main"
    /\ RequiredFlagsGiven(ParsedFlags(call.argv))
    /\ call.argv.debugnum < 0
    /\ call.argv.debug

\* every process listed the log directory, and all saw the same entries
AllListedTheSame ==
    /\ \A p \in Procs : procs[p].pc \notin {"flags", "get_directory_names"}
    /\ \A p, q \in Procs : procs[p].listing = procs[q].listing

\* C11: processes started in auto-increment debug mode that list the log
\* directory before any of them creates its directories all get the same
\* model and log directory, and all go on: creating a directory that exists
\* is no error
C11_RaceSharesRunName ==
    (AutoIncrementMode /\ AllListedTheSame)
        => \A p, q \in Procs :
             /\ procs[p].pc \in {"makedirs", "running"}
             /\ procs[p].dirs # NoCall
             /\ procs[p].dirs = procs[q].dirs

\* --dataset, --uid or --method is not on the command line
IdentityFlagMissing ==
    /\ call.op = "main"
    /\ \/ call.argv.dataset = Absent
       \/ call.argv.uid = Absent
       \/ call.argv.method = Absent

\* C12: a process started without --dataset, --uid or --method ends with
\* the configuration error of the flag check: it does not enter main,
\* creates no directory and reads or writes no checkpoint
C12_MissingFieldFailsEarly ==
    IdentityFlagMissing
        => /\ \A p \in Procs : procs[p].pc \in {"flags", "IllegalFlagValueError"}
           /\ fs \subseteq EarlierRuns
           /\ ckpt = NoCheckpoints

(* -------------------- properties of main, interrupted ------------------ *)

\* the step of the most recent checkpoint, None when there is none
LatestStep == IF ckpt.latest = 0 THEN None ELSE ckpt.saved[ckpt.latest].step

\* C17: over any history of saves, kills and restarts on the same
\* directories, the step of the most recent checkpoint never goes down: every
\* checkpoint written has a step at least that of the one before it, and a
\* step of the store changes the most recent step only upwards.
C17_LatestStepNeverDecreases ==
    /\ \A k \in 1..(Len(ckpt.saved) - 1) : ckpt.saved[k].step <= ckpt.saved[k + 1].step
    /\ ckpt.latest = Len(ckpt.saved)

\* a checkpoint written by an execution that resumed after a kill
C17_Witness ==
    /\ crashes >= 1
    /\ runs = 2
    /\ resume > 0
    /\ pc = "plots"
    /\ Len(log) > 0
    /\ log[Len(log)].hook = "save"
    /\ Len(ckpt.saved) >= 2
    /\ ckpt.saved[Len(ckpt.saved)].step > ckpt.saved[Len(ckpt.saved) - 1].step

\* C19: an execution started after a kill resumes at the step index after the
\* most recent checkpoint's step, at 0 when there is no checkpoint; that index
\* is at most the number of training steps the killed execution had completed,
\* so no index is skipped and the ones completed after the checkpoint are run
\* again.
C19_RestartResumesAfterLatest ==
    [][(pc = "start" /\ pc' = "for") =>
          /\ resume' = (IF ckpt.latest = 0 THEN 0 ELSE LatestStep + 1)
          /\ i' = resume'
          /\ global_step' = resume'
          /\ resume' <= global_step]_vars

\* a restarted execution, resumed after a checkpoint, about to train again
C19_Witness ==
    /\ crashes >= 1
    /\ runs = 2
    /\ pc = "train"
    /\ i = resume
    /\ resume = LatestStep + 1
    /\ resume >= 1
    /\ resume <= FLAGS.steps

(* -------------------- properties of main, run to its end --------------- *)

\* the counting of an execution resumed at or before --steps: iteration k has
\* the index resume + k - 1 and one train_step, entered with global_step equal
\* to that index and left with it one higher; at the exit of the loop
\* global_step is steps + 1 after steps + 1 - resume iterations
LoopCounts ==
    (Running /\ resume <= FLAGS.steps) =>
        /\ global_step >= resume
        /\ StepsOf("train_step") = [k \in 1..(global_step - resume) |-> resume + k - 1]
        /\ \A k \in 1..Len(Invocations("train_step")) :
              Invocations("train_step")[k].step = Invocations("train_step")[k].i
        /\ pc \in {"for", "train", "finish", "done"} => global_step = i
        /\ pc \notin {"for", "train", "finish", "done"} => global_step = i + 1
        /\ pc \in {"finish", "done"} =>
              /\ global_step = FLAGS.steps + 1
              /\ Len(Invocations("train_step")) = FLAGS.steps + 1 - resume

\* C18: an execution that is not killed leaves the loop, by its exit or by the
\* exception of a save; by the exit it has run steps + 1 - resume iterations
\* with one train_step each, global_step was the index i at the start of each
\* iteration and one more after its train step, and is steps + 1 at the exit.
C18_LoopTerminatesAfterCount ==
    /\ []LoopCounts
    /\ (pc = "for") ~> (pc \in {"done", "failed"})

\* a resumed execution that ran the remaining iterations to the exit
C18_Witness ==
    /\ pc = "done"
    /\ resume >= 1
    /\ resume < FLAGS.steps
    /\ global_step = FLAGS.steps + 1
    /\ Len(Invocations("train_step")) = FLAGS.steps + 1 - resume

====
